---- MODULE Spec2Model ----
(***************************************************************************)
(* CppDiFactory::DiFactory (include/CppDiFactory.h): the registry of       *)
(* registrations, the validation walk, and the production of instance      *)
(* graphs.  Every public method of DiFactory takes the factory's           *)
(* recursive_mutex for its whole body, so each one is one atomic action.   *)
(***************************************************************************)
EXTENDS Integers, Sequences, FiniteSets, TLC

(***************************************************************************)
(* The client programs.  A program fixes, at compile time, which           *)
(* register calls it contains: the template arguments of a call name the   *)
(* token (type_id<T>()), and Dependencies... is a parameter list of one of *)
(* the class's constructors.  At run time the program makes these calls,   *)
(* unregister, validate and getInstance in any order.                      *)
(***************************************************************************)
NoInst == 0

NoToken == "-"

Decl(t, kind, deps) == [tok |-> t, kind |-> kind, deps |-> deps]

Programs == {"nesting", "cycles", "supply", "mixed"}

Catalog ==
    [nesting |->
        {Decl("S", "Singleton", <<"P", "Q">>), Decl("S", "Singleton", <<"M">>),
         Decl("M", "Class", <<"P", "Q">>), Decl("M", "Interface", <<"P">>),
         Decl("P", "InstancePerRequest", <<>>), Decl("P", "Class", <<>>),
         Decl("P", "InstancePerRequest", <<"Q">>),
         Decl("Q", "Class", <<>>), Decl("Q", "InstancePerRequest", <<>>),
         Decl("Q", "Singleton", <<>>)},
     cycles |->
        {Decl("A", "Class", <<"B">>),
         Decl("B", "Class", <<"I">>), Decl("B", "Class", <<"C">>),
         Decl("C", "Class", <<"B">>),
         Decl("I", "Interface", <<"A">>), Decl("I", "Interface", <<"B">>)},
     supply |->
        {Decl("A", "Class", <<"I">>), Decl("A", "Singleton", <<"I">>),
         Decl("C", "Class", <<"B", "I">>),
         Decl("B", "Class", <<>>), Decl("B", "Instance", <<>>),
         Decl("B", "InstanceProvidedAtRequest", <<>>),
         Decl("B", "InstancePerRequest", <<>>), Decl("B", "Singleton", <<>>),
         Decl("I", "Interface", <<"B">>)},
     mixed |->
        {Decl("C", "Singleton", <<"B", "A">>),
         Decl("A", "Class", <<>>),
         Decl("B", "InstancePerRequest", <<>>),
         Decl("B", "InstanceProvidedAtRequest", <<>>), Decl("B", "Instance", <<>>)}]

TokensOf(p) == {d.tok : d \in Catalog[p]}

\* The getInstance<T, Instances...> calls a program contains besides
\* getInstance<T>() of each of its tokens: <<T, Instance>>.
Supplying ==
    [nesting |-> {},
     cycles  |-> {},
     supply  |-> {<<"A", "B">>, <<"C", "B">>, <<"A", "I">>},
     mixed   |-> {<<"C", "B">>}]

Requests(p) == {<<t, NoToken>> : t \in TokensOf(p)} \cup Supplying[p]

\* Bounds of the exploration.
MaxInst == 3

MaxHeld == 1

VARIABLES
    program,          \* the client program that is running
    registeredTypes,  \* DiFactory::_registeredTypes: token -> registration
    heap,             \* the live objects: address -> [tok, kids, by]
    held,             \* the shared_ptrs the callers hold (ids)
    argOrder,         \* order in which this build evaluates function arguments
    crashed,          \* the process died of unbounded recursion
    mutex,            \* DiFactory::_mutex: [owner, count]
    threads           \* per thread: the call it is in and where it stands

vars == <<program, registeredTypes, heap, held, argOrder, crashed, mutex, threads>>

Range(s) == {s[i] : i \in 1..Len(s)}

Reverse(s) == [i \in 1..Len(s) |-> s[Len(s) + 1 - i]]

\* The orders a range-for over the unordered_map can visit the entries in.
Perms(S) == {p \in [1..Cardinality(S) -> S] : Range(p) = S}

(***************************************************************************)
(* Registrations.  One record shape for the six registration classes:     *)
(* kind names the class, deps the Dependencies... pack (for an            *)
(* InterfaceRegistration the one concrete Class), instance the shared_ptr  *)
(* of an InstanceRegistration or the weak_ptr of a SingletonRegistration.  *)
(* made is history: the objects this registration has constructed that     *)
(* are still alive.                                                        *)
(***************************************************************************)
Registration(kind, deps, validated, hasSipr, instance) ==
    [kind |-> kind, deps |-> deps, validated |-> validated,
     hasSiprDependency |-> hasSipr, instance |-> instance, made |-> {}]

\* Function arguments are evaluated in an order the build chooses.
EvalOrder(deps) == IF argOrder = "ltr" THEN deps ELSE Reverse(deps)

Ok(st) == st.res = "ok"

Throw(st, what) == [st EXCEPT !.res = what]

(***************************************************************************)
(* The validation walk.  st = [reg, res]: the registry with the flags the  *)
(* walk has written so far, and "ok" or the exception in flight.  active   *)
(* is the set of registrations whose isValid is on the call stack:         *)
(* re-entering one of them that is not the root repeats the same calls     *)
(* without end.                                                            *)
(***************************************************************************)
RECURSIVE validateDep(_, _, _, _, _), isValid(_, _, _, _), classIsValid(_, _, _, _, _)

\* A factory in which an Interface entry is never taken for the root.
validateDep_AliasTransparent(st, d, root, caller, active) ==
    IF ~Ok(st) THEN st
    ELSE IF d \notin DOMAIN st.reg THEN Throw(st, "UnregisteredType")
    ELSE IF d = root /\ st.reg[d].kind # "Interface" THEN Throw(st, "CyclicDependency")
    ELSE LET s1 == IF st.reg[d].validated THEN st
                   ELSE IF d \in active THEN Throw(st, "StackOverflow")
                   ELSE LET s == isValid(st, d, root, active \cup {d})
                        IN  IF Ok(s) THEN [s EXCEPT !.reg[d].validated = TRUE] ELSE s
         IN  IF ~Ok(s1) THEN s1
             ELSE [s1 EXCEPT !.reg[caller].hasSiprDependency =
                                 s1.reg[d].hasSiprDependency]

\* findRegistration<T>() followed by
\* AbstractRegistration::validate(diFactory, root, hasSiprDependency),
\* where hasSiprDependency is the member of the calling registration.
validateDep(st, d, root, caller, active) ==
    IF ~Ok(st) THEN st
    ELSE IF d \notin DOMAIN st.reg THEN Throw(st, "UnregisteredType")
    ELSE IF d = root THEN Throw(st, "CyclicDependency")
    ELSE LET s1 == IF st.reg[d].validated THEN st
                   ELSE IF d \in active THEN Throw(st, "StackOverflow")
                   ELSE LET s == isValid(st, d, root, active \cup {d})
                        IN  IF Ok(s) THEN [s EXCEPT !.reg[d].validated = TRUE] ELSE s
         IN  IF ~Ok(s1) THEN s1
             ELSE [s1 EXCEPT !.reg[caller].hasSiprDependency =
                                 s1.reg[d].hasSiprDependency]

\* ClassRegistration::isValid: call(isDependencyValid<Dependencies>(...)...)
classIsValid(st, t, deps, root, active) ==
    IF deps = <<>> THEN st
    ELSE classIsValid(validateDep(st, Head(deps), root, t, active),
                      t, Tail(deps), root, active)

\* The virtual isValid of the registration of token t.
isValid(st, t, root, active) ==
    LET e == st.reg[t] IN
    CASE e.kind = "Interface" ->
            validateDep(st, e.deps[1], root, t, active)
      [] e.kind = "Class" ->
            classIsValid(st, t, EvalOrder(e.deps), root, active)
      [] e.kind = "Singleton" ->
            LET s == classIsValid(st, t, EvalOrder(e.deps), root, active)
            IN  IF Ok(s) /\ s.reg[t].hasSiprDependency
                THEN Throw(s, "IllegalLifetimeNesting") ELSE s
      [] e.kind = "InstancePerRequest" ->
            LET s == classIsValid(st, t, EvalOrder(e.deps), root, active)
            IN  IF Ok(s) THEN [s EXCEPT !.reg[t].hasSiprDependency = TRUE] ELSE s
      [] OTHER -> st

\* A factory whose validate forgets the verdict it has just computed.
validateRoot_NoCache(st, t) ==
    IF ~Ok(st) \/ st.reg[t].validated THEN st
    ELSE isValid(st, t, t, {t})

\* AbstractRegistration::validate(diFactory) of the registration of token t.
validateRoot(st, t) ==
    IF ~Ok(st) \/ st.reg[t].validated THEN st
    ELSE LET s == isValid(st, t, t, {t})
         IN  IF Ok(s) THEN [s EXCEPT !.reg[t].validated = TRUE] ELSE s

\* The loop of DiFactory::validate over the entries in the order given.
RECURSIVE validateLoop(_, _)
validateLoop(st, order) ==
    IF order = <<>> \/ ~Ok(st) THEN st
    ELSE validateLoop(validateRoot(st, Head(order)), Tail(order))

\* A factory whose invalidation loop also erases the Interface entries.
invalidateAll_DropAliases(reg) ==
    [t \in {x \in DOMAIN reg : reg[x].kind # "Interface"} |->
        [reg[t] EXCEPT !.validated = FALSE, !.hasSiprDependency = FALSE]]

\* A factory whose invalidate resets the verdict but not the flag.
invalidateAll_VerdictOnly(reg) ==
    [t \in DOMAIN reg |-> [reg[t] EXCEPT !.validated = FALSE]]

\* A factory whose unregister and replace leave the cached verdicts alone.
invalidateAll_Skip(reg) == reg

\* AbstractRegistration::invalidate on every entry.
invalidateAll(reg) ==
    [t \in DOMAIN reg |->
        [reg[t] EXCEPT !.validated = FALSE, !.hasSiprDependency = FALSE]]

\* A factory that refuses an entry one of whose dependencies is not registered.
addRegistration_Checked(reg, t, e) ==
    IF ~(Range(e.deps) \subseteq DOMAIN reg) THEN reg
    ELSE IF t \in DOMAIN reg
    THEN [x \in DOMAIN reg |->
            [(IF x = t THEN e ELSE reg[x]) EXCEPT !.validated = FALSE,
                                                  !.hasSiprDependency = FALSE]]
    ELSE [x \in DOMAIN reg \cup {t} |-> IF x = t THEN e ELSE reg[x]]

\* A factory that replaces an entry without invalidating the verdicts.
addRegistration_KeepVerdicts(reg, t, e) ==
    [x \in DOMAIN reg \cup {t} |-> IF x = t THEN e ELSE reg[x]]

\* DiFactory::addRegistration<T>
\* A factory that hands the weak_ptr of a replaced SingletonRegistration
\* over to the SingletonRegistration that replaces it.
addRegistration_KeepInstance(reg, t, e) ==
    IF t \in DOMAIN reg
    THEN IF reg[t].kind = "Singleton" /\ e.kind = "Singleton"
         THEN invalidateAll([reg EXCEPT ![t] =
                  [e EXCEPT !.instance = reg[t].instance, !.made = reg[t].made]])
         ELSE invalidateAll([reg EXCEPT ![t] = e])
    ELSE [x \in DOMAIN reg \cup {t} |-> IF x = t THEN e ELSE reg[x]]

addRegistration(reg, t, e) ==
    IF t \in DOMAIN reg
    THEN invalidateAll([reg EXCEPT ![t] = e])
    ELSE [x \in DOMAIN reg \cup {t} |-> IF x = t THEN e ELSE reg[x]]

(***************************************************************************)
(* Object lifetime: an object lives while a shared_ptr reaches it.         *)
(***************************************************************************)
RECURSIVE Reach(_, _)
Reach(h, S) ==
    LET N == S \cup UNION {Range(h[i].kids) : i \in S \cap DOMAIN h}
    IN  IF N = S THEN S ELSE Reach(h, N)

\* A factory whose InstanceRegistration holds no shared_ptr.
Owned_None(reg) == {}

\* A factory whose SingletonRegistration holds a shared_ptr.
Owned_Strong(reg) ==
    {reg[t].instance : t \in {x \in DOMAIN reg : reg[x].kind \in {"Instance", "Singleton"}}}
        \ {NoInst}

\* The objects the registry itself holds a shared_ptr to: the _instance of
\* each InstanceRegistration.
Owned(reg) == {reg[t].instance : t \in {x \in DOMAIN reg : reg[x].kind = "Instance"}}

\* What is left of heap h once only roots hold shared_ptrs.
Collect(h, roots) ==
    LET live == Reach(h, roots) \cap DOMAIN h IN [i \in live |-> h[i]]

\* The allocator hands out a free address; an address is free again once
\* its object is destroyed.
NewId(h) == CHOOSE i \in 1..(Cardinality(DOMAIN h) + 1) :
                i \notin DOMAIN h /\ \A j \in 1..(i - 1) : j \in DOMAIN h

\* A weak_ptr whose object is destroyed is expired: lock() returns null on it
\* as on an empty one, and the registry holds it as NoInst from then on.
Expire(reg, h) ==
    [t \in DOMAIN reg |->
        [reg[t] EXCEPT !.made = @ \cap DOMAIN h,
                       !.instance = IF reg[t].kind = "Singleton" /\ @ \notin DOMAIN h
                                    THEN NoInst ELSE @]]

\* An object: its class, the pointers its constructor was given and kept,
\* and (history) the kind of registration that constructed it, "caller" for
\* an object the client made itself.
Object(t, kids, by) == [tok |-> t, kids |-> kids, by |-> by]

EmptyHeap == [i \in {} |-> Object(NoToken, <<>>, "caller")]

EmptyMap == [t \in {} |-> NoInst]

(***************************************************************************)
(* Production.  ps = [reg, heap, map, res, val, built]: map is the         *)
(* request's typeInstanceMap, val the pointer just returned, built the     *)
(* objects the factory has constructed in this call.  active is            *)
(* the set of registrations whose getInstance is on the call stack.        *)
(***************************************************************************)
RECURSIVE produce(_, _, _), depsGetInstance(_, _, _, _)

\* A factory that hands out an object of the class again if one is alive.
construct_Reuse(ps, t, kids) ==
    LET old == {i \in DOMAIN ps.heap : ps.heap[i].tok = t /\ ps.heap[i].by = ps.reg[t].kind}
        i   == IF old # {} THEN CHOOSE o \in old : TRUE ELSE NewId(ps.heap)
    IN  [ps EXCEPT !.heap = (i :> Object(t, kids, ps.reg[t].kind)) @@ ps.heap,
                   !.val = i,
                   !.built = ps.built \cup {i},
                   !.reg[t].made = @ \cup {i}]

\* make_shared<Class>(kids...): the component keeps the pointers it is given.
construct(ps, t, kids) ==
    LET i == NewId(ps.heap)
    IN  [ps EXCEPT !.heap = (i :> Object(t, kids, ps.reg[t].kind)) @@ ps.heap,
                   !.val = i,
                   !.built = ps.built \cup {i},
                   !.reg[t].made = @ \cup {i}]

\* getDependencyInstance<Dependencies>(...)... in evaluation order.
depsGetInstance(ps, deps, active, vals) ==
    IF deps = <<>> \/ ~Ok(ps) THEN [ps |-> ps, vals |-> vals]
    ELSE LET s == produce(ps, Head(deps), active)
         IN  depsGetInstance(s, Tail(deps), active, Append(vals, s.val))

\* ClassRegistration::getInstance
classGetInstance(ps, t, active) ==
    LET r == depsGetInstance(ps, EvalOrder(ps.reg[t].deps), active \cup {t}, <<>>)
    IN  IF ~Ok(r.ps) THEN r.ps
        ELSE construct(r.ps, t, IF argOrder = "ltr" THEN r.vals ELSE Reverse(r.vals))

\* A SingletonRegistration that never finds its instance again.
weakLock_Null(ps, t) == NoInst

\* _instance.lock() of the SingletonRegistration of token t.
weakLock(ps, t) ==
    IF ps.reg[t].instance \in DOMAIN ps.heap THEN ps.reg[t].instance ELSE NoInst

\* A factory that hands out a null pointer when no instance was supplied.
providedGetInstance_Null(ps, t) ==
    IF t \in DOMAIN ps.map THEN [ps EXCEPT !.val = ps.map[t]] ELSE [ps EXCEPT !.val = NoInst]

\* InstanceProvidedAtRequestRegistration::getInstance
providedGetInstance(ps, t) ==
    IF t \in DOMAIN ps.map
    THEN [ps EXCEPT !.val = ps.map[t]]
    ELSE Throw(ps, "MissingExternalInstance")

\* A factory whose SingletonRegistration does not keep the weak_ptr.
produce_SingletonNoStore(ps, t, active) ==
    IF ~Ok(ps) THEN ps
    ELSE IF t \notin DOMAIN ps.reg THEN Throw(ps, "UnregisteredType")
    ELSE IF t \in active THEN Throw(ps, "StackOverflow")
    ELSE LET e == ps.reg[t] IN
         CASE e.kind = "Interface" ->
                 produce(ps, e.deps[1], active \cup {t})
           [] e.kind = "Class" ->
                 classGetInstance(ps, t, active)
           [] e.kind = "Instance" ->
                 [ps EXCEPT !.val = e.instance]
           [] e.kind = "Singleton" ->
                 IF weakLock(ps, t) # NoInst
                 THEN [ps EXCEPT !.val = weakLock(ps, t)]
                 ELSE classGetInstance(ps, t, active)
           [] e.kind = "InstancePerRequest" ->
                 IF t \in DOMAIN ps.map
                 THEN [ps EXCEPT !.val = ps.map[t]]
                 ELSE LET s == classGetInstance(ps, t, active)
                      IN  IF Ok(s) THEN [s EXCEPT !.map = (t :> s.val) @@ s.map] ELSE s
           [] e.kind = "InstanceProvidedAtRequest" ->
                 providedGetInstance(ps, t)

\* A factory whose PerRequestShared entries build a new object each time.
produce_NoMapLookup(ps, t, active) ==
    IF ~Ok(ps) THEN ps
    ELSE IF t \notin DOMAIN ps.reg THEN Throw(ps, "UnregisteredType")
    ELSE IF t \in active THEN Throw(ps, "StackOverflow")
    ELSE LET e == ps.reg[t] IN
         CASE e.kind = "Interface" ->
                 produce(ps, e.deps[1], active \cup {t})
           [] e.kind = "Class" ->
                 classGetInstance(ps, t, active)
           [] e.kind = "Instance" ->
                 [ps EXCEPT !.val = e.instance]
           [] e.kind = "Singleton" ->
                 IF weakLock(ps, t) # NoInst
                 THEN [ps EXCEPT !.val = weakLock(ps, t)]
                 ELSE LET s == classGetInstance(ps, t, active)
                      IN  IF Ok(s) THEN [s EXCEPT !.reg[t].instance = s.val] ELSE s
           [] e.kind = "InstancePerRequest" ->
                 LET s == classGetInstance(ps, t, active)
                 IN  IF Ok(s) THEN [s EXCEPT !.map = (t :> s.val) @@ s.map] ELSE s
           [] e.kind = "InstanceProvidedAtRequest" ->
                 providedGetInstance(ps, t)

\* findRegistration<T>() followed by the virtual getInstance of what it found.
produce(ps, t, active) ==
    IF ~Ok(ps) THEN ps
    ELSE IF t \notin DOMAIN ps.reg THEN Throw(ps, "UnregisteredType")
    ELSE IF t \in active THEN Throw(ps, "StackOverflow")
    ELSE LET e == ps.reg[t] IN
         CASE e.kind = "Interface" ->
                 produce(ps, e.deps[1], active \cup {t})
           [] e.kind = "Class" ->
                 classGetInstance(ps, t, active)
           [] e.kind = "Instance" ->
                 [ps EXCEPT !.val = e.instance]
           [] e.kind = "Singleton" ->
                 IF weakLock(ps, t) # NoInst
                 THEN [ps EXCEPT !.val = weakLock(ps, t)]
                 ELSE LET s == classGetInstance(ps, t, active)
                      IN  IF Ok(s) THEN [s EXCEPT !.reg[t].instance = s.val] ELSE s
           [] e.kind = "InstancePerRequest" ->
                 IF t \in DOMAIN ps.map
                 THEN [ps EXCEPT !.val = ps.map[t]]
                 ELSE LET s == classGetInstance(ps, t, active)
                      IN  IF Ok(s) THEN [s EXCEPT !.map = (t :> s.val) @@ s.map] ELSE s
           [] e.kind = "InstanceProvidedAtRequest" ->
                 providedGetInstance(ps, t)

\* A factory in which no checkAsParam throws.
AllowedAsParam_All ==
    {"Class", "Instance", "Singleton", "Interface",
     "InstancePerRequest", "InstanceProvidedAtRequest"}

\* AbstractRegistration::checkAsParam: only these two overrides do not throw.
AllowedAsParam == {"InstancePerRequest", "InstanceProvidedAtRequest"}

\* DiFactory::RegisterInstanceForRequest with no or with one instance x
\* supplied for token supTok.
RegisterInstanceForRequest(ps, supTok, x) ==
    IF ~Ok(ps) \/ supTok = NoToken THEN ps
    ELSE IF supTok \notin DOMAIN ps.reg THEN Throw(ps, "UnregisteredType")
    ELSE IF ps.reg[supTok].kind \notin AllowedAsParam
         THEN Throw(ps, "IneligibleExternalSupply")
    ELSE [ps EXCEPT !.map = (supTok :> x) @@ ps.map]

\* A factory that hands out a null pointer for a token it does not know.
getInstanceBody_NullForUnknown(reg, h, t, supTok, x) ==
    LET ps0 == [reg |-> reg, heap |-> h, map |-> EmptyMap,
                res |-> "ok", val |-> NoInst, built |-> {}]
    IN  IF t \notin DOMAIN reg THEN ps0
        ELSE LET v   == validateRoot([reg |-> reg, res |-> "ok"], t)
                 ps1 == [ps0 EXCEPT !.reg = v.reg, !.res = v.res]
                 ps2 == RegisterInstanceForRequest(ps1, supTok, x)
             IN  produce(ps2, t, {})

\* A factory that erases an entry whose validation fails.
getInstanceBody_EraseInvalid(reg, h, t, supTok, x) ==
    LET ps0 == [reg |-> reg, heap |-> h, map |-> EmptyMap,
                res |-> "ok", val |-> NoInst, built |-> {}]
    IN  IF t \notin DOMAIN reg THEN Throw(ps0, "UnregisteredType")
        ELSE LET v   == validateRoot([reg |-> reg, res |-> "ok"], t)
                 ps1 == [ps0 EXCEPT !.reg = v.reg, !.res = v.res]
                 ps2 == RegisterInstanceForRequest(ps1, supTok, x)
             IN  IF Ok(v) THEN produce(ps2, t, {})
                 ELSE [ps2 EXCEPT !.reg = [u \in DOMAIN v.reg \ {t} |-> v.reg[u]]]

\* A factory that checks the supplied instance before it validates.
getInstanceBody_SupplyFirst(reg, h, t, supTok, x) ==
    LET ps0 == [reg |-> reg, heap |-> h, map |-> EmptyMap,
                res |-> "ok", val |-> NoInst, built |-> {}]
    IN  IF t \notin DOMAIN reg THEN Throw(ps0, "UnregisteredType")
        ELSE LET ps1 == RegisterInstanceForRequest(ps0, supTok, x)
                 v   == validateRoot([reg |-> reg, res |-> ps1.res], t)
                 ps2 == [ps1 EXCEPT !.reg = v.reg, !.res = v.res]
             IN  produce(ps2, t, {})

\* A factory that produces the graph before it checks the supplied instance.
getInstanceBody_ProduceFirst(reg, h, t, supTok, x) ==
    LET ps0 == [reg |-> reg, heap |-> h, map |-> EmptyMap,
                res |-> "ok", val |-> NoInst, built |-> {}]
    IN  IF t \notin DOMAIN reg THEN Throw(ps0, "UnregisteredType")
        ELSE LET v   == validateRoot([reg |-> reg, res |-> "ok"], t)
                 ps1 == [ps0 EXCEPT !.reg = v.reg, !.res = v.res]
             IN  RegisterInstanceForRequest(produce(ps1, t, {}), supTok, x)

\* The body of DiFactory::getInstance<T, Instances...>(instances...) on
\* registry reg and heap h.
getInstanceBody(reg, h, t, supTok, x) ==
    LET ps0 == [reg |-> reg, heap |-> h, map |-> EmptyMap,
                res |-> "ok", val |-> NoInst, built |-> {}]
    IN  IF t \notin DOMAIN reg THEN Throw(ps0, "UnregisteredType")
        ELSE LET v   == validateRoot([reg |-> reg, res |-> "ok"], t)
                 ps1 == [ps0 EXCEPT !.reg = v.reg, !.res = v.res]
                 ps2 == RegisterInstanceForRequest(ps1, supTok, x)
             IN  produce(ps2, t, {})

(***************************************************************************)
(* The calls a client makes.                                               *)
(***************************************************************************)
\* The client threads.
NumThreads == 2

Threads == 1..NumThreads

NoThread == 0

\* A recursive_mutex nobody holds.
Unlocked == [owner |-> NoThread, count |-> 0]

\* A thread that is in no call of the factory.
NoOp == [kind |-> "none", tok |-> NoToken, entry |-> Registration("Class", <<>>, FALSE, FALSE, NoInst),
         sup |-> NoToken, x |-> NoInst, order |-> <<>>]

\* What a thread knows of the shared state: registry, heap, held pointers.
Shared(reg, h, hs) == [reg |-> reg, heap |-> h, held |-> hs]

NoShared == Shared(<<>>, <<>>, {})

\* pc: where the thread stands; op: the call it is in; todo: the entries
\* validate() has still to visit; res: how the call ends.  History: seen is
\* what the registry bound and had cached after this thread's latest step, at the shared
\* state the call is to be compared with: the one the thread found when it
\* took the mutex, less the pointers that callers have dropped since.
Idle == [pc |-> "idle", op |-> NoOp, todo |-> <<>>, res |-> "ok",
         seen |-> <<>>, at |-> NoShared]

Init ==
    /\ program \in Programs
    /\ registeredTypes = [t \in {} |-> Registration("Class", <<>>, FALSE, FALSE, NoInst)]
    /\ heap = EmptyHeap
    /\ held = {}
    /\ argOrder \in {"ltr", "rtl"}
    /\ crashed = FALSE
    /\ mutex = Unlocked
    /\ threads = [th \in Threads |-> Idle]

\* What a call leaves behind: registry reg, and of heap h the objects that
\* the callers' pointers hs and the registry keep alive.
Leave(reg, h, hs) ==
    /\ heap' = Collect(h, hs \cup Owned(reg))
    /\ registeredTypes' = Expire(reg, heap')
    /\ held' = hs

\* A register call: the new registration e is stored under token t; the
\* registration it replaces, if any, is destroyed.
Register(t, e, h) ==
    /\ ~crashed
    /\ Leave(addRegistration(registeredTypes, t, e), h, held)
    /\ UNCHANGED <<program, argOrder, crashed, mutex, threads>>

\* The register calls of kind k the program contains.
Calls(k) == {d \in Catalog[program] : d.kind = k}

\* make_shared<...Registration<...> >() value-initializes a registration
\* that has no constructor of its own: both flags start false.
RegisterNew(k) ==
    \E d \in Calls(k) :
        Register(d.tok, Registration(k, d.deps, FALSE, FALSE, NoInst), heap)

registerClass == RegisterNew("Class")

\* The InstanceRegistration constructor leaves _validated and
\* _hasSiprDependency of its base uninitialized: their values are whatever
\* the allocation held.  The instance is one the caller has just made.
registerInstance ==
    \E d \in Calls("Instance") : \E v \in BOOLEAN, s \in BOOLEAN :
        LET x == NewId(heap)
        IN  /\ x <= MaxInst
            /\ Register(d.tok, Registration("Instance", <<>>, v, s, x),
                        (x :> Object(d.tok, <<>>, "caller")) @@ heap)

registerInstancePerRequest == RegisterNew("InstancePerRequest")

registerInstanceProvidedAtRequest == RegisterNew("InstanceProvidedAtRequest")

registerSingleton == RegisterNew("Singleton")

registerInterface == RegisterNew("Interface")

unregister ==
    \E t \in TokensOf(program) :
        /\ ~crashed
        /\ Leave(invalidateAll([x \in DOMAIN registeredTypes \ {t} |-> registeredTypes[x]]),
                 heap, held)
        /\ UNCHANGED <<program, argOrder, crashed, mutex, threads>>

\* The instances a caller can supply for token supTok: one it has just made
\* or one that is alive already.
Suppliable(supTok) ==
    IF supTok = NoToken THEN {NoInst}
    ELSE {NewId(heap)} \cup {i \in DOMAIN heap : heap[i].tok = supTok}

\* The heap at the start of a call that supplies x for supTok.
WithSupplied(supTok, x) ==
    IF x # NoInst /\ x \notin DOMAIN heap
    THEN (x :> Object(supTok, <<>>, "caller")) @@ heap ELSE heap

\* getInstance<T>() and getInstance<T, Instance>(x); the caller receives the
\* result in a shared_ptr.
getInstance ==
    \E rq \in Requests(program) : \E x \in Suppliable(rq[2]) :
        LET r   == getInstanceBody(registeredTypes, WithSupplied(rq[2], x), rq[1], rq[2], x)
            got == IF Ok(r) THEN held \cup {r.val} ELSE held
        IN  /\ ~crashed
            /\ DOMAIN r.heap \subseteq 1..MaxInst
            /\ Cardinality(got) <= MaxHeld
            /\ Leave(r.reg, r.heap, got)
            /\ crashed' = (r.res = "StackOverflow")
            /\ UNCHANGED <<program, argOrder, mutex, threads>>

\* DiFactory::validate
validate ==
    \E order \in Perms(DOMAIN registeredTypes) :
        LET s == validateLoop([reg |-> registeredTypes, res |-> "ok"], order)
        IN  /\ ~crashed
            /\ registeredTypes' = s.reg
            /\ crashed' = (s.res = "StackOverflow")
            /\ UNCHANGED <<program, heap, held, argOrder, mutex, threads>>

\* A caller drops one of its shared_ptrs.
Release ==
    \E i \in held :
        /\ ~crashed
        /\ Leave(registeredTypes, heap, held \ {i})
        /\ UNCHANGED <<program, argOrder, crashed, mutex, threads>>

Next ==
    \/ registerClass
    \/ registerInstance
    \/ registerInstancePerRequest
    \/ registerInstanceProvidedAtRequest
    \/ registerSingleton
    \/ registerInterface
    \/ unregister
    \/ getInstance
    \/ validate
    \/ Release

Spec == Init /\ [][Next]_vars

(***************************************************************************)
(* What the properties below speak of.                                     *)
(***************************************************************************)
Registered == DOMAIN registeredTypes

KindOf(t) == registeredTypes[t].kind

DepsOf(t) == IF t \in Registered THEN Range(registeredTypes[t].deps) ELSE {}

RECURSIVE ReachTokens(_)
ReachTokens(S) ==
    LET N == S \cup UNION {DepsOf(x) : x \in S}
    IN  IF N = S THEN S ELSE ReachTokens(N)

\* The dependency closure of token t: what t reaches in one or more steps.
Closure(t) == ReachTokens(DepsOf(t))

OnCycle(t) == t \in Closure(t)

\* Everything t reaches is registered and none of it lies on a cycle.
Complete(t) ==
    /\ Closure(t) \subseteq Registered
    /\ \A u \in Closure(t) \cup {t} : ~OnCycle(u)

HasSipr(t) == \E p \in Closure(t) \cap Registered : KindOf(p) = "InstancePerRequest"

\* No Singleton that t is or reaches can be refused for what it depends on,
\* and nothing t is or reaches lies on a cycle.
Unflagged(t) ==
    \A u \in (Closure(t) \cup {t}) \cap Registered :
        /\ ~OnCycle(u)
        /\ KindOf(u) = "Singleton" =>
              \A p \in Closure(u) \cap Registered :
                  KindOf(p) \notin {"InstancePerRequest", "Instance"}

\* The entry a token resolves to through Interface entries.
RECURSIVE Follow(_, _)
Follow(t, seen) ==
    IF t \in Registered /\ KindOf(t) = "Interface" /\ t \notin seen
    THEN Follow(registeredTypes[t].deps[1], seen \cup {t}) ELSE t

Target(t) == Follow(t, {})

TargetKind(t) == IF Target(t) \in Registered THEN KindOf(Target(t)) ELSE "none"

\* The outcome of getInstance<T>() and of getInstance<T, Instance>(x) in the
\* current state, and of validate() visiting the entries in the given order.
Call(rq, x) ==
    getInstanceBody(registeredTypes, WithSupplied(rq[2], x), rq[1], rq[2], x)

Plain(t) == Call(<<t, NoToken>>, NoInst)

Validate(order) == validateLoop([reg |-> registeredTypes, res |-> "ok"], order)

Orders == Perms(Registered)

\* The object graph a call returns.
Graph(r) == Reach(r.heap, {r.val})

\* C1: validating a Singleton entry whose dependency closure contains a
\* PerRequestShared entry fails with IllegalLifetimeNesting, through
\* getInstance and through validate(), whether the PerRequestShared entry is
\* a direct dependency or reached through Class and Interface entries and
\* wherever it stands among the declared dependencies; a PerRequestShared
\* entry that depends on a Singleton validates.
C1_LifetimeNesting ==
    /\ \A t \in Registered :
          (KindOf(t) = "Singleton" /\ Complete(t) /\ HasSipr(t))
              => Plain(t).res = "IllegalLifetimeNesting"
    /\ ((\A t \in Registered : Complete(t))
          /\ (\E t \in Registered : KindOf(t) = "Singleton" /\ HasSipr(t)))
              => \A order \in Orders : Validate(order).res = "IllegalLifetimeNesting"
    /\ \A t \in Registered :
          (/\ KindOf(t) = "InstancePerRequest" /\ Complete(t)
           /\ \A u \in Closure(t) : KindOf(u) = "Singleton" => ~HasSipr(u))
              => Plain(t).res = "ok"

\* C2: in a registry in which some entry is reachable from itself, validate()
\* fails with CyclicDependency, and getInstance of every entry on the cycle
\* fails with CyclicDependency and constructs nothing.
C2_CycleRejected ==
    ((\A t \in Registered : Closure(t) \subseteq Registered)
       /\ (\E t \in Registered : OnCycle(t)))
    => /\ \A order \in Orders : Validate(order).res = "CyclicDependency"
       /\ \A t \in Registered :
             OnCycle(t) => /\ Plain(t).res = "CyclicDependency"
                           /\ Plain(t).built = {}

\* C3: an entry whose dependency closure contains a token that has no entry
\* (it was unregistered) fails getInstance and validate(), also when the
\* entry had been validated and resolved before; the failure is
\* UnregisteredType when the missing token is the only defect.
C3_UnregisterInvalidates ==
    /\ \A rq \in Requests(program) : \A x \in Suppliable(rq[2]) :
          (rq[1] \in Registered /\ ~(Closure(rq[1]) \subseteq Registered))
              => /\ Call(rq, x).res # "ok"
                 /\ Unflagged(rq[1]) => Call(rq, x).res = "UnregisteredType"
    /\ (\E t \in Registered : ~(Closure(t) \subseteq Registered))
          => \A order \in Orders :
                /\ Validate(order).res # "ok"
                /\ (\A t \in Registered : Unflagged(t))
                      => Validate(order).res = "UnregisteredType"

\* An Interface entry is left whose class was unregistered while a caller
\* still holds an object of that class, obtained when it was registered.
C3_Witness ==
    \E t \in Registered : \E i \in held :
        /\ KindOf(t) = "Interface"
        /\ heap[i].tok \in Closure(t) \ Registered
        /\ heap[i].by = "Class"
        /\ Plain(t).res = "UnregisteredType"

\* C4: while an instance that a Singleton registration has built is alive,
\* every resolution of the token (or of an alias of it) returns that very
\* instance and constructs nothing; once it has been released and destroyed,
\* the next resolution constructs and returns a new object.
C4_SingletonIdentity ==
    \A rq \in Requests(program) : \A x \in Suppliable(rq[2]) :
        LET r == Call(rq, x)
            s == Target(rq[1])
        IN  (TargetKind(rq[1]) = "Singleton" /\ r.res = "ok")
            => LET m == registeredTypes[s].made
               IN  /\ Cardinality(m) <= 1
                   /\ m # {} => (r.val \in m /\ r.built = {})
                   /\ m = {} => (r.val \in r.built /\ r.val \notin DOMAIN heap)

\* A caller holds the instance a Singleton registration built, and the next
\* resolution through an alias returns it.
C4_Witness ==
    \E t \in Registered :
        /\ KindOf(t) = "Interface" /\ TargetKind(t) = "Singleton"
        /\ registeredTypes[Target(t)].made # {}
        /\ registeredTypes[Target(t)].made \subseteq held
        /\ Plain(t).val \in held

\* C5: every live object that a Singleton registration constructed is held
\* by a caller or reached from an object a caller holds; the factory alone
\* keeps none alive, and none exists while no caller holds anything.
C5_SingletonNotKeptAlive ==
    \A i \in DOMAIN heap :
        heap[i].by = "Singleton" => i \in Reach(heap, held)

\* A Singleton-built object is alive only through the object graph a caller
\* holds.
C5_Witness ==
    \E i \in DOMAIN heap :
        /\ heap[i].by = "Singleton"
        /\ i \notin held
        /\ i \in Reach(heap, held)
        /\ \E t \in Registered : KindOf(t) = "Singleton" /\ registeredTypes[t].instance = i

\* C6: in the graph one getInstance call returns there is at most one object
\* per PerRequestShared token, and it was constructed by this very call.
C6_PerRequestSharing ==
    \A t \in Registered :
        LET r == Plain(t) IN
        r.res = "ok" =>
            \A p \in Registered :
                KindOf(p) = "InstancePerRequest" =>
                    LET objs == {i \in Graph(r) : /\ r.heap[i].tok = p
                                                  /\ r.heap[i].by = "InstancePerRequest"}
                    IN  Cardinality(objs) <= 1 /\ objs \subseteq r.built

\* The edges of the graph of r that point at object o.
EdgesTo(r, o) ==
    {e \in Graph(r) \X (1..2) : e[2] \in DOMAIN r.heap[e[1]].kids
                                  /\ r.heap[e[1]].kids[e[2]] = o}

\* C7: every production of a Class entry constructs a new object: the result
\* of getInstance of a Class token is an object that did not exist before the
\* call, and an object a Class registration constructed in a call is handed to
\* one consumer only.
C7_ClassAlwaysNew ==
    \A rq \in Requests(program) : \A x \in Suppliable(rq[2]) :
        LET r == Call(rq, x) IN
        r.res = "ok" =>
            /\ TargetKind(rq[1]) = "Class"
                  => (r.val \in r.built /\ r.val \notin DOMAIN WithSupplied(rq[2], x))
            /\ \A o \in r.built :
                  r.heap[o].by = "Class" => Cardinality(EdgesTo(r, o)) <= 1

\* A caller holds an object whose two dependencies resolve to the same Class
\* entry: it holds two objects.
C7_Witness ==
    \E i \in held :
        /\ Len(heap[i].kids) = 2
        /\ heap[i].kids[1] # heap[i].kids[2]
        /\ heap[heap[i].kids[1]].by = "Class"
        /\ heap[heap[i].kids[2]].by = "Class"
        /\ heap[heap[i].kids[1]].tok = heap[heap[i].kids[2]].tok

\* C8: the instance given to registerInstance is alive as long as the
\* registration is in the registry, and every resolution of the token or of
\* an alias of it returns that instance and constructs nothing.
C8_InstanceKept ==
    \A t \in Registered :
        TargetKind(t) = "Instance" =>
            LET x == registeredTypes[Target(t)].instance
                r == Plain(t)
            IN  /\ x \in DOMAIN heap
                /\ heap[x].by = "caller"
                /\ r.res = "ok" /\ r.val = x /\ r.built = {}

\* No caller holds anything, and an alias resolves to the registered instance.
C8_Witness ==
    \E t \in Registered :
        /\ KindOf(t) = "Interface" /\ TargetKind(t) = "Instance"
        /\ held = {}
        /\ registeredTypes[t].validated
        /\ Plain(t).val \in DOMAIN heap

\* A Class entry one of whose declared dependencies is, or is an alias of, an
\* ExternallyProvided entry.
NeedsProvided(c) ==
    /\ KindOf(c) = "Class"
    /\ \E d \in DepsOf(c) : TargetKind(d) = "InstanceProvidedAtRequest"

\* C9: an ExternallyProvided entry validates, and so does a registry that
\* contains one and has no defect; getInstance of a Class entry that depends
\* on it, with nothing supplied, fails with MissingExternalInstance.
C9_ProvidedMissing ==
    /\ \A t \in Registered :
          KindOf(t) = "InstanceProvidedAtRequest"
              => validateRoot([reg |-> registeredTypes, res |-> "ok"], t).res = "ok"
    /\ ((\E t \in Registered : KindOf(t) = "InstanceProvidedAtRequest")
          /\ (\A t \in Registered : Complete(t) /\ Unflagged(t)))
              => \A order \in Orders : Validate(order).res = "ok"
    /\ \A c \in Registered :
          (NeedsProvided(c) /\ Complete(c) /\ Unflagged(c))
              => Plain(c).res = "MissingExternalInstance"

\* validate() has accepted a Class entry that depends on an ExternallyProvided
\* entry through an alias, and getInstance of it fails for the missing instance.
C9_Witness ==
    \E c \in Registered :
        /\ NeedsProvided(c)
        /\ \E d \in DepsOf(c) \cap Registered : KindOf(d) = "Interface"
        /\ \A t \in Registered : registeredTypes[t].validated
        /\ Plain(c).res = "MissingExternalInstance"

SupplyCalls ==
    {c \in Requests(program) \X (1..(MaxInst + 1)) :
        /\ c[1][2] # NoToken /\ c[1][2] \in Registered
        /\ c[2] \in Suppliable(c[1][2])}

\* C11: supplying an instance for a token whose entry is a Class, Instance,
\* Singleton or Interface entry (also an alias of an ExternallyProvided
\* entry) makes getInstance fail and construct nothing; the failure is
\* IneligibleExternalSupply when the requested entry is registered and
\* well-formed.  Supplying for an ExternallyProvided or PerRequestShared
\* token is never refused as ineligible.
C11_IneligibleSupply ==
    \A c \in SupplyCalls :
        LET rq == c[1]
            r  == Call(rq, c[2])
        IN  /\ KindOf(rq[2]) \notin {"InstancePerRequest", "InstanceProvidedAtRequest"}
               => /\ r.res # "ok"
                  /\ r.built = {}
                  /\ (rq[1] \in Registered /\ Complete(rq[1]) /\ Unflagged(rq[1]))
                        => r.res = "IneligibleExternalSupply"
            /\ KindOf(rq[2]) \in {"InstancePerRequest", "InstanceProvidedAtRequest"}
               => r.res # "IneligibleExternalSupply"

\* An instance is supplied through an alias of an ExternallyProvided entry to
\* a request whose entry has passed validation, and the call is refused.
C11_Witness ==
    \E c \in SupplyCalls :
        /\ KindOf(c[1][2]) = "Interface"
        /\ TargetKind(c[1][2]) = "InstanceProvidedAtRequest"
        /\ c[1][1] \in Registered
        /\ registeredTypes[c[1][1]].validated
        /\ Call(c[1], c[2]).res = "IneligibleExternalSupply"

\* The consumers of token p in the graph of r: the objects that the current
\* registration of their class constructed, with the positions of the
\* declared dependencies that resolve to p.
Consumers(r, p) ==
    {e \in Graph(r) \X (1..2) :
        LET o == r.heap[e[1]] IN
        /\ o.tok \in Registered
        /\ e[1] \in r.reg[o.tok].made
        /\ e[2] \in DOMAIN registeredTypes[o.tok].deps
        /\ e[2] \in DOMAIN o.kids
        /\ Target(registeredTypes[o.tok].deps[e[2]]) = p}

\* C12: when an instance x is supplied for a PerRequestShared token P, every
\* consumer of P in the returned graph holds x and the call constructs no
\* object of P; when nothing is supplied, every consumer of P in the returned
\* graph holds one and the same object, constructed in this call.
C12_SuppliedPerRequest ==
    /\ \A c \in SupplyCalls :
          LET p == c[1][2]
              r == Call(c[1], c[2])
          IN  (KindOf(p) = "InstancePerRequest" /\ r.res = "ok")
              => /\ \A e \in Consumers(r, p) : r.heap[e[1]].kids[e[2]] = c[2]
                 /\ \A i \in r.built : r.heap[i].tok # p
    /\ \A t \in Registered : \A p \in Registered :
          LET r == Plain(t) IN
          (KindOf(p) = "InstancePerRequest" /\ r.res = "ok")
          => \A e \in Consumers(r, p) :
                /\ r.heap[e[1]].kids[e[2]] \in r.built
                /\ \A f \in Consumers(r, p) :
                      r.heap[f[1]].kids[f[2]] = r.heap[e[1]].kids[e[2]]

\* The failures a getInstance call reports.
FailureKinds ==
    {"UnregisteredType", "CyclicDependency", "IllegalLifetimeNesting",
     "IneligibleExternalSupply", "MissingExternalInstance"}

\* The getInstance calls the program can make in the current state:
\* <<request, instance supplied>>.
AllCalls ==
    {c \in Requests(program) \X (0..(MaxInst + 1)) : c[2] \in Suppliable(c[1][2])}

\* C13 as stated: a getInstance call that fails, with whichever of the
\* failure kinds, has constructed no object.
C13_NoConstructionOnFailure ==
    \A c \in AllCalls :
        LET r == Call(c[1], c[2])
        IN  r.res \in FailureKinds => r.built = {}

\* C13: a getInstance call that fails with UnregisteredType,
\* CyclicDependency, IllegalLifetimeNesting or IneligibleExternalSupply has
\* constructed no object: these are found before production starts.  (A
\* call that fails with MissingExternalInstance fails during production.)
C13_ValidationFailuresBuildNothing ==
    \A c \in AllCalls :
        LET r == Call(c[1], c[2])
        IN  r.res \in FailureKinds \ {"MissingExternalInstance"} => r.built = {}

\* A request is refused for the instance supplied with it, although its
\* entry has passed validation and would have been constructed from two
\* dependencies had nothing been supplied.
C13_Witness ==
    \E c \in SupplyCalls :
        /\ c[1][1] \in Registered
        /\ registeredTypes[c[1][1]].validated
        /\ Call(c[1], c[2]).res = "IneligibleExternalSupply"
        /\ Plain(c[1][1]).res = "ok"
        /\ Cardinality(Plain(c[1][1]).built) = 3

\* C14: getInstance of a token that has no entry fails with UnregisteredType
\* and constructs nothing, whether the token was never registered or was
\* registered and unregistered again, and whether or not an instance is
\* supplied with the call; validate() on the empty registry succeeds.
C14_UnknownType ==
    /\ \A c \in AllCalls :
          c[1][1] \notin Registered
              => /\ Call(c[1], c[2]).res = "UnregisteredType"
                 /\ Call(c[1], c[2]).built = {}
    /\ Registered = {} => \A order \in Orders : Validate(order).res = "ok"

\* The registry is empty again, and a caller still holds an object that a
\* Class entry constructed while it was registered.
C14_Witness ==
    /\ Registered = {}
    /\ \E i \in held : /\ heap[i].by = "Class"
                       /\ Plain(heap[i].tok).res = "UnregisteredType"

\* Entry t is well-formed: every token of its closure is registered, nothing
\* in it lies on a cycle, and no Singleton in it reaches a PerRequestShared
\* entry.
WellFormed(t) ==
    /\ Complete(t)
    /\ \A u \in Closure(t) \cup {t} : KindOf(u) = "Singleton" => ~HasSipr(u)

\* C15: validate() succeeds exactly when every registered entry is
\* well-formed, in whatever order it visits the entries and whatever verdicts
\* are cached.
C15_ValidateExact ==
    \A order \in Orders :
        (Validate(order).res = "ok") <=> (\A t \in Registered : WellFormed(t))

\* The live objects the factory constructed for a registration that is no
\* longer in the registry: it was unregistered or replaced.
Stale ==
    {i \in DOMAIN heap :
        /\ heap[i].by # "caller"
        /\ \/ heap[i].tok \notin Registered
           \/ i \notin registeredTypes[heap[i].tok].made}

\* C16: after a token is registered again, every resolution of the token and
\* of every alias of it uses the new entry: what a call returns, and what it
\* hands to the objects it constructs, is never an object the replaced entry
\* constructed (unless the caller supplies that very object); an object the
\* call constructs is made as the current entry says; and no verdict cached
\* before the replacement is reused: an entry marked validated has all of
\* its closure registered and free of cycles.
C16_ReplaceTakesEffect ==
    /\ \A c \in AllCalls :
          LET r == Call(c[1], c[2])
              t == Target(c[1][1])
              old == Stale \ {c[2]}
          IN  r.res = "ok"
              => /\ r.val \notin old
                 /\ \A o \in r.built : Range(r.heap[o].kids) \cap old = {}
                 /\ r.val \in r.built
                       => /\ r.heap[r.val].tok = t
                          /\ r.heap[r.val].by = KindOf(t)
                          /\ Len(r.heap[r.val].kids) = Len(registeredTypes[t].deps)
    /\ \A t \in Registered : registeredTypes[t].validated => Complete(t)

\* A caller holds the instance of a Singleton entry that has been replaced by
\* another Singleton entry, reached through an alias that was registered
\* before the replacement; the alias resolves to a new object.
C16_Witness ==
    \E a \in Registered : \E i \in held :
        /\ KindOf(a) = "Interface"
        /\ TargetKind(a) = "Singleton"
        /\ heap[i].tok = Target(a)
        /\ heap[i].by = "Singleton"
        /\ i \in Stale
        /\ Plain(a).res = "ok"
        /\ Plain(a).val \notin DOMAIN heap

\* The registration that make_shared<...Registration<...> >() makes for the
\* register call d.
NewEntry(d) == Registration(d.kind, d.deps, FALSE, FALSE, NoInst)

\* C17: every register call and every unregister call succeeds in every
\* registry state: after register the token is bound to the entry the call
\* describes and every other binding is as before, also when the entry's
\* dependencies are not registered or when it closes a cycle or an illegal
\* lifetime nesting; unregister can be called whether or not the token has
\* an entry.  A missing dependency or a cycle is reported by a later
\* validate() or getInstance.
C17_MutationsSucceed ==
    /\ \A d \in Catalog[program] :
          LET r == addRegistration(registeredTypes, d.tok, NewEntry(d))
          IN  /\ DOMAIN r = Registered \cup {d.tok}
              /\ r[d.tok].kind = d.kind /\ r[d.tok].deps = d.deps
              /\ \A u \in Registered \ {d.tok} :
                    r[u].kind = KindOf(u) /\ r[u].deps = registeredTypes[u].deps
    /\ ~crashed =>
          /\ ENABLED unregister
          /\ \A k \in {"Class", "Interface", "Singleton", "InstancePerRequest",
                        "InstanceProvidedAtRequest"} :
                Calls(k) # {} => ENABLED RegisterNew(k)
          /\ (Calls("Instance") # {} /\ NewId(heap) <= MaxInst)
                => ENABLED registerInstance
    /\ \A t \in Registered : ~Complete(t) => Plain(t).res # "ok"
    /\ (\E t \in Registered : ~Complete(t))
          => \A order \in Orders : Validate(order).res # "ok"

\* The only entry of the registry is an alias whose class is not registered;
\* its registration succeeded and its resolution fails.
C17_Witness ==
    \E t \in Registered :
        /\ Registered = {t}
        /\ KindOf(t) = "Interface"
        /\ Target(t) \notin Registered
        /\ Plain(t).res = "UnregisteredType"

\* The registrations a register call for declaration d can store: an
\* InstanceRegistration carries whatever flags the allocation held.
NewEntries(d) ==
    IF d.kind = "Instance"
    THEN {Registration("Instance", <<>>, v, s, NoInst) : v \in BOOLEAN, s \in BOOLEAN}
    ELSE {Registration(d.kind, d.deps, FALSE, FALSE, NoInst)}

\* The registry after unregister<t>().
Unregistered(t) ==
    invalidateAll([x \in Registered \ {t} |-> registeredTypes[x]])

\* Every entry of registry reg is unvalidated: verdict and flag are reset.
AllUnvalidated(reg) ==
    \A t \in DOMAIN reg : ~reg[t].validated /\ ~reg[t].hasSiprDependency

\* C19 as stated: after a register call, inserting or replacing, and after an
\* unregister call, every entry of the registry is unvalidated.
C19_EveryMutationResets ==
    /\ \A d \in Catalog[program] : \A e \in NewEntries(d) :
            AllUnvalidated(addRegistration(registeredTypes, d.tok, e))
    /\ \A t \in TokensOf(program) : AllUnvalidated(Unregistered(t))

\* C19: after a register call that replaces an entry and after an unregister
\* call (whether or not the token was present) every entry is unvalidated;
\* a register call that inserts a new token leaves the verdict and the flag
\* of every other entry as they were, and the entry it inserts is
\* unvalidated unless it is an Instance entry.
C19_ReplaceAndUnregisterReset ==
    /\ \A t \in TokensOf(program) : AllUnvalidated(Unregistered(t))
    /\ \A d \in Catalog[program] : \A e \in NewEntries(d) :
          LET r == addRegistration(registeredTypes, d.tok, e)
          IN  IF d.tok \in Registered THEN AllUnvalidated(r)
              ELSE /\ \A t \in Registered :
                        /\ r[t].validated = registeredTypes[t].validated
                        /\ r[t].hasSiprDependency
                              = registeredTypes[t].hasSiprDependency
                   /\ d.kind # "Instance"
                        => ~r[d.tok].validated /\ ~r[d.tok].hasSiprDependency

\* A caller holds an object that the current PerRequestShared registration of
\* its token constructed, so that entry was validated with its flag set; it
\* is unvalidated again, its flag reset.
C19_Witness ==
    \E i \in held :
        /\ heap[i].tok \in Registered
        /\ heap[i].by = "InstancePerRequest"
        /\ i \in registeredTypes[heap[i].tok].made
        /\ ~registeredTypes[heap[i].tok].validated
        /\ ~registeredTypes[heap[i].tok].hasSiprDependency
        /\ Cardinality(Registered) > 1

\* The validation step of getInstance<t>() on registry reg.
Walk(reg, t) == validateRoot([reg |-> reg, res |-> "ok"], t)

\* The failures a validation walk ends with.
ValidationFailures == {"UnregisteredType", "CyclicDependency", "IllegalLifetimeNesting"}

MTPrograms == {"cycles", "mixed"}

\* A thread with no room left for another pointer drops the result.
Keep(hs, r) ==
    IF Ok(r) /\ Cardinality(hs \cup {r.val}) <= MaxHeld
    THEN hs \cup {r.val} ELSE hs

\* Leave as a value.
After(reg, h, hs) ==
    LET h2 == Collect(h, hs \cup Owned(reg))
    IN  Shared(Expire(reg, h2), h2, hs)

Op(kind, t, e, sup, x, order) ==
    [kind |-> kind, tok |-> t, entry |-> e, sup |-> sup, x |-> x, order |-> order]

\* The calls a thread can make in the current state.
RegisterOps ==
    UNION {{Op("register", d.tok,
               [e EXCEPT !.instance = IF d.kind = "Instance" THEN NewId(heap) ELSE NoInst],
               NoToken, NoInst, <<>>) : e \in NewEntries(d)} :
           d \in {c \in Catalog[program] : c.kind = "Instance" => NewId(heap) <= MaxInst}}

UnregisterOps ==
    {Op("unregister", t, NoOp.entry, NoToken, NoInst, <<>>) : t \in TokensOf(program)}

ValidateOps ==
    {Op("validate", NoToken, NoOp.entry, NoToken, NoInst, order) :
        order \in Perms(DOMAIN registeredTypes)}

GetInstanceOps ==
    {Op("getInstance", c[1][1], NoOp.entry, c[1][2], c[2], <<>>) :
        c \in {c \in Requests(program) \X (0..(MaxInst + 1)) :
                 /\ c[2] \in Suppliable(c[1][2])
                 /\ DOMAIN getInstanceBody(registeredTypes, WithSupplied(c[1][2], c[2]),
                                           c[1][1], c[1][2], c[2]).heap \subseteq 1..MaxInst}}

MTOps == RegisterOps \cup UnregisterOps \cup ValidateOps \cup GetInstanceOps

\* The heap a call starts from: registerInstance is handed an object the
\* caller has just made, getInstance the instance the caller supplies.
CallHeap(op, h) ==
    LET x == IF op.kind = "register" THEN op.entry.instance ELSE op.x
    IN  IF x # NoInst /\ x \notin DOMAIN h
        THEN (x :> Object(IF op.kind = "register" THEN op.tok ELSE op.sup, <<>>, "caller")) @@ h
        ELSE h

\* What call op does to shared state sh when it runs alone, and how it ends.
Outcome(op, sh) ==
    CASE op.kind = "register" ->
            [res |-> "ok"] @@
            After(addRegistration(sh.reg, op.tok, op.entry), CallHeap(op, sh.heap), sh.held)
      [] op.kind = "unregister" ->
            [res |-> "ok"] @@
            After(invalidateAll([x \in DOMAIN sh.reg \ {op.tok} |-> sh.reg[x]]),
                  sh.heap, sh.held)
      [] op.kind = "validate" ->
            LET v == validateLoop([reg |-> sh.reg, res |-> "ok"], op.order)
            IN  [res |-> v.res] @@ Shared(v.reg, sh.heap, sh.held)
      [] OTHER ->
            LET r == getInstanceBody(sh.reg, CallHeap(op, sh.heap), op.tok, op.sup, op.x)
            IN  [res |-> r.res] @@ After(r.reg, r.heap, Keep(sh.held, r))

\* The first statement after the lock_guard of each public method.
Entry(op) ==
    CASE op.kind = "register"   -> "addRegistration"
      [] op.kind = "unregister" -> "erase"
      [] op.kind = "validate"   -> "loop"
      [] OTHER                  -> "find"

\* A thread that ignores who holds the mutex.
CanLock_Always(m, th) == TRUE

\* recursive_mutex::lock returns when nobody else owns the mutex.
CanLock(m, th) == m.owner \in {NoThread, th}

Locked(m, th) == [owner |-> th, count |-> m.count + 1]

Unlocking(m) ==
    IF m.count <= 1 THEN Unlocked ELSE [m EXCEPT !.count = m.count - 1]

\* What registry reg binds and has cached: all but the pointers to instances.
Verdicts(reg) ==
    [t \in DOMAIN reg |->
        [kind |-> reg[t].kind, deps |-> reg[t].deps, validated |-> reg[t].validated,
         hasSiprDependency |-> reg[t].hasSiprDependency]]

\* Thread th moves to pc with result res; the registry is as it leaves it.
Step(th, pc, todo, res) ==
    threads' = [threads EXCEPT ![th].pc = pc, ![th].todo = todo, ![th].res = res,
                               ![th].seen = Verdicts(registeredTypes')]

\* lock_guard<recursive_mutex> lockGuard{ _mutex } of a public method.
Lock ==
    \E th \in Threads : \E op \in MTOps :
        /\ ~crashed
        /\ threads[th].pc = "idle"
        /\ CanLock(mutex, th)
        /\ mutex' = Locked(mutex, th)
        /\ threads' = [threads EXCEPT ![th] =
                          [pc |-> Entry(op), op |-> op, todo |-> op.order, res |-> "ok",
                           seen |-> Verdicts(registeredTypes),
                           at |-> Shared(registeredTypes, heap, held)]]
        /\ UNCHANGED <<program, registeredTypes, heap, held, argOrder, crashed>>

\* The lock_guard of addRegistration: the thread takes the mutex it holds.
AddRegistrationLock ==
    \E th \in Threads :
        /\ ~crashed
        /\ threads[th].pc = "addRegistration"
        /\ CanLock(mutex, th)
        /\ mutex' = Locked(mutex, th)
        /\ UNCHANGED <<program, registeredTypes, heap, held, argOrder, crashed>>
        /\ Step(th, "insert", <<>>, "ok")

\* The body of addRegistration, and the end of its lock_guard.
AddRegistrationInsert ==
    \E th \in Threads :
        LET op == threads[th].op
        IN  /\ ~crashed
            /\ threads[th].pc = "insert"
            /\ Leave(addRegistration(registeredTypes, op.tok, op.entry), CallHeap(op, heap), held)
            /\ mutex' = Unlocking(mutex)
            /\ UNCHANGED <<program, argOrder, crashed>>
            /\ Step(th, "unlock", <<>>, "ok")

\* unregister: find and erase.
UnregisterErase ==
    \E th \in Threads :
        /\ ~crashed
        /\ threads[th].pc = "erase"
        /\ Leave([x \in DOMAIN registeredTypes \ {threads[th].op.tok} |-> registeredTypes[x]],
                 heap, held)
        /\ UNCHANGED <<program, argOrder, crashed, mutex>>
        /\ Step(th, "invalidate", <<>>, "ok")

\* unregister: the loop that invalidates every entry.
UnregisterInvalidate ==
    \E th \in Threads :
        /\ ~crashed
        /\ threads[th].pc = "invalidate"
        /\ registeredTypes' = invalidateAll(registeredTypes)
        /\ UNCHANGED <<program, heap, held, argOrder, crashed, mutex>>
        /\ Step(th, "unlock", <<>>, "ok")

\* validate(): one round of the loop over the entries.
ValidateNext ==
    \E th \in Threads :
        LET todo == threads[th].todo
            v    == validateRoot([reg |-> registeredTypes, res |-> "ok"], Head(todo))
        IN  /\ ~crashed
            /\ threads[th].pc = "loop"
            /\ IF todo = <<>>
               THEN /\ UNCHANGED <<registeredTypes, crashed>>
                    /\ UNCHANGED <<program, heap, held, argOrder, mutex>>
                    /\ Step(th, "unlock", <<>>, "ok")
               ELSE /\ Head(todo) \in DOMAIN registeredTypes
                    /\ registeredTypes' = v.reg
                    /\ crashed' = (v.res = "StackOverflow")
                    /\ UNCHANGED <<program, heap, held, argOrder, mutex>>
                    /\ Step(th, IF Ok(v) /\ Tail(todo) # <<>> THEN "loop" ELSE "unlock",
                            Tail(todo), v.res)

\* getInstance: findRegistration<T>().
GetInstanceFind ==
    \E th \in Threads :
        /\ ~crashed
        /\ threads[th].pc = "find"
        /\ UNCHANGED <<program, registeredTypes, heap, held, argOrder, crashed, mutex>>
        /\ IF threads[th].op.tok \in DOMAIN registeredTypes
           THEN Step(th, "validate", <<>>, "ok")
           ELSE Step(th, "unlock", <<>>, "UnregisteredType")

\* getInstance: registration.validate(*this).
GetInstanceValidate ==
    \E th \in Threads :
        LET v == validateRoot([reg |-> registeredTypes, res |-> "ok"], threads[th].op.tok)
        IN  /\ ~crashed
            /\ threads[th].pc = "validate"
            /\ threads[th].op.tok \in DOMAIN registeredTypes
            /\ registeredTypes' = v.reg
            /\ crashed' = (v.res = "StackOverflow")
            /\ UNCHANGED <<program, heap, held, argOrder, mutex>>
            /\ Step(th, IF Ok(v) THEN "produce" ELSE "unlock", <<>>, v.res)

\* getInstance: RegisterInstanceForRequest and getTypedInstance; the caller
\* receives the result.
GetInstanceProduce ==
    \E th \in Threads :
        LET op  == threads[th].op
            ps1 == [reg |-> registeredTypes, heap |-> CallHeap(op, heap),
                    map |-> EmptyMap, res |-> "ok", val |-> NoInst, built |-> {}]
            r   == produce(RegisterInstanceForRequest(ps1, op.sup, op.x), op.tok, {})
        IN  /\ ~crashed
            /\ threads[th].pc = "produce"
            /\ op.tok \in DOMAIN registeredTypes
            /\ Leave(r.reg, r.heap, Keep(held, r))
            /\ UNCHANGED <<program, argOrder, crashed, mutex>>
            /\ Step(th, "unlock", <<>>, r.res)

\* The lock_guard of the public method goes out of scope.
Unlock ==
    \E th \in Threads :
        /\ ~crashed
        /\ threads[th].pc = "unlock"
        /\ mutex' = Unlocking(mutex)
        /\ threads' = [threads EXCEPT ![th] = Idle]
        /\ UNCHANGED <<program, registeredTypes, heap, held, argOrder, crashed>>

\* A caller outside the factory drops one of its shared_ptrs, but not one
\* it has handed to a call that is still running.  A call that has not
\* produced its result yet is compared with the state less this pointer.
Drop ==
    \E i \in held :
        /\ ~crashed
        /\ \A th \in Threads : threads[th].op.x # i
        /\ Leave(registeredTypes, heap, held \ {i})
        /\ threads' = [th \in Threads |->
                          IF threads[th].pc \in {"idle", "unlock"} THEN threads[th]
                          ELSE [threads[th] EXCEPT
                                   !.at = After(@.reg, @.heap, @.held \ {i})]]
        /\ UNCHANGED <<program, argOrder, crashed, mutex>>

InitMT == Init /\ program \in MTPrograms

NextMT ==
    \/ Lock
    \/ AddRegistrationLock
    \/ AddRegistrationInsert
    \/ UnregisterErase
    \/ UnregisterInvalidate
    \/ ValidateNext
    \/ GetInstanceFind
    \/ GetInstanceValidate
    \/ GetInstanceProduce
    \/ Unlock
    \/ Drop

SpecMT == InitMT /\ [][NextMT]_vars

InCall(th) == threads[th].pc # "idle"

\* C18: with several threads calling register*, unregister, validate and
\* getInstance, at most one thread is inside a call, and it holds the mutex;
\* between the steps of its call the registry, with its cached verdicts, is
\* as the thread's own latest step left it; and when the call ends the
\* registry and the call's result are those of the whole call run alone on
\* the state the thread found when it took the mutex, less the pointers
\* that callers outside the factory dropped before the call produced.
C18_Serialized ==
    /\ \A a \in Threads, b \in Threads : (InCall(a) /\ InCall(b)) => a = b
    /\ \A th \in Threads :
          InCall(th)
            => /\ mutex.owner = th
               /\ mutex.count = IF threads[th].pc = "insert" THEN 2 ELSE 1
               /\ threads[th].seen = Verdicts(registeredTypes)
               /\ threads[th].pc = "unlock"
                    => LET r == Outcome(threads[th].op, threads[th].at)
                       IN  /\ threads[th].res = r.res
                           /\ Verdicts(r.reg) = Verdicts(registeredTypes)
    /\ (\A th \in Threads : ~InCall(th)) => mutex = Unlocked

\* A validate() call is between two rounds of its loop: the entries it has
\* visited are validated, one it has still to visit is not; the other
\* thread is outside.
C18_Witness ==
    \E a \in Threads, b \in Threads :
        /\ a # b
        /\ ~InCall(b)
        /\ threads[a].pc = "loop"
        /\ threads[a].todo # <<>>
        /\ Len(threads[a].todo) < Len(threads[a].op.order)
        /\ \E t \in Range(threads[a].todo) : ~registeredTypes[t].validated
        /\ \A t \in Range(threads[a].op.order) \ Range(threads[a].todo) :
              registeredTypes[t].validated

(***************************************************************************)
(* Termination of the walk, the flag, aliases, the per-request map.        *)
(***************************************************************************)
\* C21: validation terminates for every registry and every root: neither
\* getInstance of a registered token nor validate() recurses without bound,
\* also when a cycle lies in the root's closure without passing through the
\* root, and the process never dies of it.
C21_ValidationTerminates ==
    /\ ~crashed
    /\ \A t \in Registered : Plain(t).res # "StackOverflow"
    /\ \A order \in Orders : Validate(order).res # "StackOverflow"

\* The flag the entry of token t should carry in registry reg: true for a
\* PerRequestShared entry, otherwise the OR of its dependencies' flags.
FlagOf(reg, t) ==
    \/ reg[t].kind = "InstancePerRequest"
    \/ \E d \in Range(reg[t].deps) : reg[d].hasSiprDependency

\* C22: after a successful validation of a Class, Singleton or
\* PerRequestShared entry its flag is the OR of the flags of all its
\* dependencies, in whatever order they were checked; an Interface entry's
\* flag is its target's flag and a PerRequestShared entry's flag is true.
C22_FlagIsOr ==
    \A t \in Registered :
        LET r == Walk(registeredTypes, t)
        IN  (Ok(r) /\ KindOf(t) \in {"Class", "Singleton", "InstancePerRequest", "Interface"})
                => r.reg[t].hasSiprDependency = FlagOf(r.reg, t)

\* The Interface entries of the registry.
Aliases == {t \in Registered : KindOf(t) = "Interface"}

\* C23 as stated: an Interface entry is never the entry whose equality with
\* the walk's root raises CyclicDependency.  The walk raises
\* CyclicDependency only when it meets its root, so no walk whose root is
\* an Interface entry ends with CyclicDependency.
C23_AliasNeverRaises ==
    \A t \in Aliases : Walk(registeredTypes, t).res # "CyclicDependency"

\* C23: the validity check of an Interface entry only forwards to the
\* aliased entry, with the same root: a walk whose root is an Interface
\* entry that lies on a cycle ends with CyclicDependency when it comes back
\* to that entry; one whose root is an Interface entry that lies on no
\* cycle ends as the walk of the aliased entry does, unless that one ends
\* with CyclicDependency, and leaves the alias with its target's flag.
C23_AliasForwards ==
    \A t \in Aliases :
        LET d == registeredTypes[t].deps[1]
            r == Walk(registeredTypes, t)
        IN  IF registeredTypes[t].validated THEN Ok(r)
            ELSE IF d \notin Registered THEN r.res = "UnregisteredType"
            ELSE IF OnCycle(t) /\ Closure(t) \subseteq Registered
            THEN r.res = "CyclicDependency"
            ELSE IF OnCycle(t) THEN TRUE
            ELSE LET rd == Walk(registeredTypes, d)
                 IN  /\ rd.res # "CyclicDependency" => r.res = rd.res
                     /\ Ok(r) => /\ r.reg[d].validated
                                 /\ r.reg[t].hasSiprDependency = r.reg[d].hasSiprDependency

\* The root is an Interface entry on a cycle through two Class entries; its
\* walk ends with CyclicDependency.
C23_Witness ==
    \E t \in Aliases :
        /\ ~registeredTypes[t].validated
        /\ OnCycle(t)
        /\ \E a \in Closure(t) \cap Registered, b \in Closure(t) \cap Registered :
              a # b /\ KindOf(a) = "Class" /\ KindOf(b) = "Class"
        /\ Walk(registeredTypes, t).res = "CyclicDependency"

\* The objects built in the call with outcome r that were handed the
\* instance of token p: <<object, position of p among its dependencies>>.
SessionConsumers(r, p) ==
    {e \in r.built \X (1..2) :
        LET o == r.heap[e[1]]
        IN  /\ o.tok \in Registered
            /\ e[2] \in DOMAIN registeredTypes[o.tok].deps
            /\ e[2] \in DOMAIN o.kids
            /\ Target(registeredTypes[o.tok].deps[e[2]]) = p}

\* The objects the PerRequestShared entry of p constructed in the call.
SessionBuilt(r, p) ==
    {o \in r.built : r.heap[o].tok = p /\ r.heap[o].by = "InstancePerRequest"}

\* C24: within one getInstance call the typeInstanceMap is write-once per
\* token.  It holds values only for tokens that may be supplied; the value
\* the caller supplied stays; a PerRequestShared entry constructs at most
\* once in the call, never when a value was supplied, and what it
\* constructs is the value of its token; everything built in the call that
\* depends on the token was handed that value, and so is the caller when
\* the requested token resolves to it.
C24_MapWriteOnce ==
    \A c \in AllCalls :
        LET r   == Call(c[1], c[2])
            sup == c[1][2]
        IN  /\ \A p \in DOMAIN r.map :
                  /\ p \in Registered
                  /\ KindOf(p) \in AllowedAsParam
                  /\ r.map[p] # NoInst
                  /\ p = sup => (r.map[p] = c[2] /\ SessionBuilt(r, p) = {})
                  /\ SessionBuilt(r, p) \subseteq {r.map[p]}
                  /\ \A e \in SessionConsumers(r, p) : r.heap[e[1]].kids[e[2]] = r.map[p]
                  /\ (Ok(r) /\ Target(c[1][1]) = p) => r.val = r.map[p]
            /\ \A p \in Registered \ DOMAIN r.map : SessionBuilt(r, p) = {}

\* A call without supplied instance in which two objects built in the call
\* depend on the same PerRequestShared token, which was constructed once.
C24_Witness ==
    \E t \in Registered :
        LET r == Plain(t)
        IN  /\ Ok(r)
            /\ \E p \in DOMAIN r.map :
                  /\ KindOf(p) = "InstancePerRequest"
                  /\ SessionBuilt(r, p) = {r.map[p]}
                  /\ Cardinality({e[1] : e \in SessionConsumers(r, p)}) >= 2

\* C25: getInstance looks the requested token up, validates it, checks the
\* supplied instance, and produces, in this order, and the failure it
\* reports is that of the first step that fails: an unregistered requested
\* token before any validation failure, a validation failure before
\* IneligibleExternalSupply or UnregisteredType of the supplied token, and
\* these before MissingExternalInstance, the only failure of production.
C25_StepOrder ==
    \A c \in AllCalls :
        LET t   == c[1][1]
            sup == c[1][2]
            r   == Call(c[1], c[2])
            v   == Walk(registeredTypes, t)
        IN  IF t \notin Registered
            THEN r.res = "UnregisteredType" /\ r.reg = registeredTypes
            ELSE IF ~Ok(v)
            THEN r.res = v.res /\ r.reg = v.reg /\ r.built = {} /\ r.map = EmptyMap
            ELSE IF sup # NoToken /\ sup \notin Registered
            THEN r.res = "UnregisteredType" /\ r.built = {} /\ r.map = EmptyMap
            ELSE IF sup # NoToken /\ KindOf(sup) \notin AllowedAsParam
            THEN r.res = "IneligibleExternalSupply" /\ r.built = {} /\ r.map = EmptyMap
            ELSE r.res \in {"ok", "MissingExternalInstance"}

\* A call whose requested token fails validation and whose supplied
\* instance is not eligible: the validation failure is reported.
C25_Witness ==
    \E c \in SupplyCalls :
        /\ c[1][1] \in Registered
        /\ KindOf(c[1][2]) \notin AllowedAsParam
        /\ Walk(registeredTypes, c[1][1]).res \in ValidationFailures
        /\ Call(c[1], c[2]).res = Walk(registeredTypes, c[1][1]).res

\* The shared state after unregister<t>().
UnregisterState(t) == After(Unregistered(t), heap, held)

\* What token u is bound to in registry reg.
Binding(reg, u) ==
    [kind |-> reg[u].kind, deps |-> reg[u].deps, instance |-> reg[u].instance]

\* getInstance<t>() and validate() in shared state sh.
PlainIn(sh, t) == getInstanceBody(sh.reg, sh.heap, t, NoToken, NoInst)

ValidateIn(sh, order) == validateLoop([reg |-> sh.reg, res |-> "ok"], order)

\* C26: unregister<T>() removes the binding of T and no other: every other
\* token stays bound to the same entry, and nothing changes when T has no
\* entry.  After unregistering an Interface token whose concrete entry
\* stays registered, getInstance of the Interface token fails with
\* UnregisteredType, getInstance of the concrete token succeeds if it did
\* before, and validate() succeeds if it did before and no entry depends
\* on the Interface token.
C26_UnregisterFrame ==
    \A t \in TokensOf(program) :
        LET sh == UnregisterState(t)
        IN  /\ DOMAIN sh.reg = Registered \ {t}
            /\ \A u \in DOMAIN sh.reg : Binding(sh.reg, u) = Binding(registeredTypes, u)
            /\ sh.held = held
            /\ t \notin Registered => sh.heap = heap
            /\ t \in Aliases =>
                  LET a == registeredTypes[t].deps[1]
                  IN  /\ PlainIn(sh, t).res = "UnregisteredType"
                      /\ (a \in Registered /\ Plain(a).res = "ok" /\ t \notin Closure(a))
                            => PlainIn(sh, a).res = "ok"
                      /\ ((\A order \in Orders : Validate(order).res = "ok")
                              /\ \A u \in Registered \ {t} : t \notin DepsOf(u))
                            => \A order \in Perms(DOMAIN sh.reg) :
                                    ValidateIn(sh, order).res = "ok"

\* An Interface token can be unregistered while its concrete entry and a
\* third entry are registered, the whole registry is valid and validated,
\* and a caller holds an object of the concrete entry.
C26_Witness ==
    \E t \in Aliases :
        LET a == registeredTypes[t].deps[1]
        IN  /\ a \in Registered
            /\ Cardinality(Registered) >= 3
            /\ \A u \in Registered : registeredTypes[u].validated /\ t \notin DepsOf(u)
            /\ \E i \in held : heap[i].tok = a
            /\ PlainIn(UnregisterState(t), a).res = "ok"
            /\ \A order \in Perms(Registered \ {t}) :
                  ValidateIn(UnregisterState(t), order).res = "ok"

\* C27: every entry marked validated is well-formed in the current
\* registry: every token of its closure is registered, its closure has no
\* cycle, no Singleton it is or reaches reaches a PerRequestShared entry,
\* and its cached flag is true exactly when it is, or its closure
\* contains, a PerRequestShared entry.
C27_MemoSound ==
    \A t \in Registered :
        registeredTypes[t].validated
            => /\ WellFormed(t)
               /\ registeredTypes[t].hasSiprDependency
                     <=> (KindOf(t) = "InstancePerRequest" \/ HasSipr(t))

\* Registry reg binds the tokens the current registry binds, each to the
\* same entry; only verdicts, flags and Singleton weak_ptrs may differ.
SameBindings(reg) ==
    /\ DOMAIN reg = Registered
    /\ \A u \in Registered :
          /\ reg[u].kind = KindOf(u)
          /\ reg[u].deps = registeredTypes[u].deps
          /\ KindOf(u) # "Singleton" => reg[u].instance = registeredTypes[u].instance

\* C28: getInstance and validate(), whether they succeed or fail, leave
\* the set of registered tokens and the entry bound to each token as they
\* were; validate() leaves the Singleton weak_ptrs alone as well.
C28_BindingsKept ==
    /\ \A c \in AllCalls :
          LET r == Call(c[1], c[2])
          IN  /\ SameBindings(r.reg)
              /\ SameBindings(After(r.reg, r.heap, held).reg)
    /\ \A order \in Orders :
          \A u \in Registered :
              Binding(Validate(order).reg, u) = Binding(registeredTypes, u)

\* A getInstance call fails part-way through its validation walk and has
\* changed cached verdicts by then; another one succeeds and renews the
\* weak_ptr of a Singleton entry.
C28_Witness ==
    /\ \E t \in Registered :
          /\ Plain(t).res \in ValidationFailures
          /\ Verdicts(Plain(t).reg) # Verdicts(registeredTypes)
    /\ \E t \in Registered :
          /\ KindOf(t) = "Singleton"
          /\ Ok(Plain(t))
          /\ Plain(t).reg[t].instance # registeredTypes[t].instance

\* The live objects the current SingletonRegistration of token t built.
LiveSingletons(t) == registeredTypes[t].made \cap DOMAIN heap

\* What the production step of thread th, which is about to run, yields.
Producing(th) ==
    LET op  == threads[th].op
        ps1 == [reg |-> registeredTypes, heap |-> CallHeap(op, heap),
                map |-> EmptyMap, res |-> "ok", val |-> NoInst, built |-> {}]
    IN  produce(RegisterInstanceForRequest(ps1, op.sup, op.x), op.tok, {})

\* C29: with several threads calling getInstance and callers dropping
\* their pointers at any moment, at most one object built by the current
\* registration of a Singleton token is alive, the registration's weak_ptr
\* points to it, every caller that holds an object of the registration
\* holds that one, and a thread whose getInstance for the token is about
\* to produce while it is alive is handed it and constructs none (the
\* call fails only when its externally supplied instance is rejected).
C29_OneSingleton ==
    \A t \in Registered :
        KindOf(t) = "Singleton"
            => /\ Cardinality(LiveSingletons(t)) <= 1
               /\ LiveSingletons(t) \subseteq {registeredTypes[t].instance}
               /\ \A th \in Threads :
                     (threads[th].pc = "produce" /\ Target(threads[th].op.tok) = t
                         /\ LiveSingletons(t) # {})
                        => LET r == Producing(th)
                           IN  /\ threads[th].op.sup = NoToken => Ok(r)
                               /\ Ok(r) => /\ r.val \in LiveSingletons(t)
                                           /\ \A o \in r.built : r.heap[o].tok # t

\* A caller holds the object of a Singleton registration while a thread's
\* getInstance for the same token has validated and is about to produce.
C29_Witness ==
    \E t \in Registered : \E th \in Threads :
        /\ KindOf(t) = "Singleton"
        /\ held \cap LiveSingletons(t) # {}
        /\ threads[th].pc = "produce"
        /\ threads[th].op.tok = t
        /\ Producing(th).val \in held

\* The objects a caller holds that some SingletonRegistration of token t
\* built, whether or not that registration is still the one in the registry.
HeldSingletons(t) ==
    {i \in held : heap[i].tok = t /\ heap[i].by = "Singleton"}

\* The factory right after registerSingleton replaces the entry of d.tok
\* by the new entry e.
Reregistered(d, e) ==
    After(addRegistration(registeredTypes, d.tok, e), heap, held)

\* C30 (as stated): while a caller holds an instance that was built for a
\* Singleton-registered token, the next resolution of the token returns
\* that instance, whichever registration of the token built it.
C30_OnePerToken ==
    \A t \in Registered : \A i \in HeldSingletons(t) :
        (KindOf(t) = "Singleton" /\ Ok(Plain(t))) => Plain(t).val = i

\* C30 (amended): at most one live instance exists per Singleton
\* registration, not per token. A registration that replaces a Singleton
\* entry starts with an empty weak_ptr: the instance the replaced
\* registration built stays alive while it is held, and the next successful
\* resolution of the token yields a second, distinct instance: the one the
\* new registration has built if it is alive, a newly constructed one if not.
C30_OnePerRegistration ==
    /\ \A t \in Registered :
          KindOf(t) = "Singleton"
              => /\ Cardinality(LiveSingletons(t)) <= 1
                 /\ \A i \in HeldSingletons(t) \cap Stale :
                       LET r == Plain(t)
                       IN  Ok(r) => /\ IF LiveSingletons(t) = {}
                                       THEN r.val \in r.built
                                       ELSE r.val \in LiveSingletons(t)
                                    /\ r.val # i
                                    /\ i \in DOMAIN r.heap
                                    /\ r.heap[i] = heap[i]
    /\ \A d \in Calls("Singleton") : \A e \in NewEntries(d) :
          (d.tok \in Registered /\ KindOf(d.tok) = "Singleton")
              => \A i \in HeldSingletons(d.tok) \cap LiveSingletons(d.tok) :
                    LET sh == Reregistered(d, e)
                        r  == PlainIn(sh, d.tok)
                    IN  /\ i \in DOMAIN sh.heap
                        /\ sh.reg[d.tok].instance = NoInst
                        /\ Ok(r) => /\ r.val \in r.built
                                    /\ r.val # i
                                    /\ i \in DOMAIN r.heap

\* A Singleton token has been registered again while a caller holds the
\* instance the replaced registration built, and the next resolution of
\* the token succeeds with an object that did not exist before.
C30_Witness ==
    \E t \in Registered : \E i \in HeldSingletons(t) \cap Stale :
        /\ KindOf(t) = "Singleton"
        /\ Ok(Plain(t))
        /\ Plain(t).val \notin DOMAIN heap
        /\ i \in DOMAIN Plain(t).heap

====
